---- MODULE Spec2Model ----
(***************************************************************************)
(* tap-pushbullet: one stream's extraction pass.                           *)
(*                                                                         *)
(* The repository supplies the hooks of a REST stream (get_url_params,     *)
(* get_new_paginator, PushbulletPaginator.has_more, the backoff wait       *)
(* function); the request loop and the paginator's advance() are the       *)
(* methods the classes inherit from singer_sdk (RESTStream,                *)
(* JSONPathPaginator / BaseAPIPaginator).  The model follows one pass:     *)
(* build a request, receive a page or a retriable failure, back off,       *)
(* advance the paginator.                                                  *)
(***************************************************************************)
EXTENDS Integers, Sequences, FiniteSets, TLC

(* ---------------------------- bounds ----------------------------------- *)
MaxPages == 3          \* page requests of one pass
MaxRecs == 1           \* records in one page
MaxModified == 1       \* largest `modified` value of a record / bookmark
MaxNow == 1            \* largest clock reading (epoch seconds)
MaxHeaderLen == 2      \* characters in an X-Ratelimit-Reset header value

(* ------------------------- values of the model ------------------------- *)
\* Python's None where the other values are strings.
None == "None"

\* An optional number is <<>> (None) or <<n>>.
OptNat(n) == {<<>>} \cup {<<i>> : i \in 0..n}

\* Cursor strings a server can return; "" is the empty (falsy) string.
Tokens == {"", "X", "Y"}

\* Characters of a header value: two digits, a sign and a letter.
HeaderChars == {"0", "3", "-", "a"}

Digits == {"0", "3"}

DigitVal(c) == IF c = "3" THEN 3 ELSE 0

Max(a, b) == IF a >= b THEN a ELSE b

SeqsUpTo(S, n) == UNION {[1..k -> S] : k \in 0..n}

(* --------------------------- streams.py -------------------------------- *)
\* The stream classes: their class attributes name and path.
Chats == [name |-> "chats", path |-> "/v2/chats"]

Devices == [name |-> "devices", path |-> "/v2/devices"]

Pushes == [name |-> "pushes", path |-> "/v2/pushes"]

Subscriptions == [name |-> "subscriptions", path |-> "/v2/subscriptions"]

(* ------------------------------ tap.py --------------------------------- *)
STREAM_TYPES == <<Chats, Devices, Pushes, Subscriptions>>

StreamNames == {STREAM_TYPES[i].name : i \in 1..Len(STREAM_TYPES)}

\* Tap configurations accepted by config_jsonschema: a required api_key and
\* an optional start_date.
Configs ==
    {[api_key |-> "key1", start_date |-> <<>>],
     [api_key |-> "key2", start_date |-> <<1>>]}

\* stream_class(tap=self): an instance carries its class attributes and the
\* configuration of the tap it is bound to.
stream_class(cls, tapConfig) ==
    [name |-> cls.name, path |-> cls.path, config |-> tapConfig]

discover_streams_tail(tapConfig) ==
    [i \in 1..(Len(STREAM_TYPES) - 1) |-> stream_class(STREAM_TYPES[i + 1], tapConfig)]

discover_streams(tapConfig) ==
    [i \in 1..Len(STREAM_TYPES) |-> stream_class(STREAM_TYPES[i], tapConfig)]

(* ----------------------- streams.py, continued ------------------------- *)

\* A JSONPath "$.<field>[*]" (each = TRUE) or "$.<field>" (each = FALSE).
records_jsonpath(name) == [field |-> name, each |-> TRUE]

next_page_token_jsonpath == [field |-> "cursor", each |-> FALSE]

PAGE_SIZE == 100

(* ------------------------- response bodies ----------------------------- *)
\* The decoded envelope {<key>: [records...], "cursor": <cursor>}: `key` is
\* the name the record array sits under ("None": no array at all), records
\* the `modified` values of its records, cursor the cursor field ("None":
\* the body has no cursor field).
NoBody == [key |-> None, records |-> <<>>, cursor |-> None]

Bodies ==
    [key : StreamNames, records : SeqsUpTo(1..MaxModified, MaxRecs),
     cursor : Tokens \cup {None}]
    \cup [key : {None}, records : {<<>>}, cursor : Tokens \cup {None}]

\* extract_jsonpath(path, body): the matches, in document order.
extract_jsonpath(path, body) ==
    IF path.each
    THEN IF body.key = path.field THEN body.records ELSE <<>>
    ELSE IF path.field = "cursor" /\ body.cursor # None
         THEN <<body.cursor>>
         ELSE <<>>

(* ----------------------------- client.py ------------------------------- *)
\* float(reset) on the characters of the model: an optional sign followed
\* by one or more digits is a number, anything else raises ValueError.
RECURSIVE DigitsValue(_)
DigitsValue(s) ==
    IF s = <<>> THEN 0
    ELSE 10 * DigitsValue(SubSeq(s, 1, Len(s) - 1)) + DigitVal(s[Len(s)])

IsDigits(s) == Len(s) > 0 /\ \A i \in 1..Len(s) : s[i] \in Digits

float(s) ==
    IF IsDigits(s) THEN [ok |-> TRUE, val |-> DigitsValue(s)]
    ELSE IF Len(s) > 1 /\ s[1] = "-" /\ IsDigits(Tail(s))
         THEN [ok |-> TRUE, val |-> 0 - DigitsValue(Tail(s))]
         ELSE [ok |-> FALSE, val |-> 0]

\* A failure signal: whether a response came at all and, if so, its
\* X-Ratelimit-Reset header as an optional value (<<>>: header absent).
Exceptions ==
    [response : {FALSE}, reset : {<<>>}]
    \cup [response : {TRUE},
          reset : {<<>>} \cup {<<h>> : h \in SeqsUpTo(HeaderChars, MaxHeaderLen)}]

NoException == [response |-> FALSE, reset |-> <<>>]

\* headers.get("X-Ratelimit-Reset")
HeadersGet(exception) == exception.reset

\* The result of a call: the value returned, or the exception raised.
Return(v) == [raised |-> None, value |-> v]

Raise(e) == [raised |-> e, value |-> 0]

_get_wait_time_from_response_nomax(exception, now) ==
    IF ~exception.response THEN Return(60)
    ELSE LET reset == HeadersGet(exception) IN
         IF reset # <<>> /\ reset[1] # <<>>
         THEN IF float(reset[1]).ok
              THEN Return(float(reset[1]).val - now)
              ELSE Raise("ValueError")
         ELSE Return(0)

_get_wait_time_from_response_noresp(exception, now) ==
    LET reset == HeadersGet(exception) IN
    IF reset # <<>> /\ reset[1] # <<>>
    THEN IF float(reset[1]).ok
         THEN Return(Max(float(reset[1]).val - now, 0))
         ELSE Raise("ValueError")
    ELSE Return(0)

_get_wait_time_from_response_fallback(exception, now) ==
    IF ~exception.response THEN Return(60)
    ELSE LET reset == HeadersGet(exception) IN
         IF reset # <<>> /\ reset[1] # <<>>
         THEN IF float(reset[1]).ok
              THEN Return(Max(float(reset[1]).val - now, 0))
              ELSE Raise("ValueError")
         ELSE Return(60)

_get_wait_time_from_response(exception, now) ==
    IF ~exception.response THEN Return(60)
    ELSE LET reset == HeadersGet(exception) IN
         IF reset # <<>> /\ reset[1] # <<>>
         THEN IF float(reset[1]).ok
              THEN Return(Max(float(reset[1]).val - now, 0))
              ELSE Raise("ValueError")
         ELSE Return(0)

\* backoff.runtime(value=_get_wait_time_from_response): each wait is the
\* value of the function on the latest failure.
backoff_wait_generator(exception, now) ==
    _get_wait_time_from_response(exception, now)

\* PushbulletPaginator(jsonpath, records_jsonpath)
PushbulletPaginator(jsonpath, recordsPath) ==
    [jsonpath |-> jsonpath, records_jsonpath |-> recordsPath]

has_more_always(paginator, body) == TRUE

has_more(paginator, body) ==
    extract_jsonpath(paginator.records_jsonpath, body) # <<>>

get_new_paginator_cursor(name) ==
    PushbulletPaginator(next_page_token_jsonpath, next_page_token_jsonpath)

get_new_paginator(name) ==
    PushbulletPaginator(next_page_token_jsonpath, records_jsonpath(name))

\* JSONPathPaginator.get_next: the first match of the token path, or None.
get_next(paginator, body) ==
    LET all_matches == extract_jsonpath(paginator.jsonpath, body) IN
    IF all_matches = <<>> THEN None ELSE all_matches[1]

\* Python truthiness of a token: None and "" are falsy.
Truthy(token) == token # None /\ token # ""

PushbulletStream_get_url_params_bookmark(startValue, bookmark, next_page_token) ==
    [cursor |-> next_page_token, limit |-> PAGE_SIZE, modified_after |-> bookmark]

PushbulletStream_get_url_params(startValue, bookmark, next_page_token) ==
    [cursor |-> next_page_token, limit |-> PAGE_SIZE, modified_after |-> startValue]

WithActive(params) ==
    [k \in DOMAIN params \cup {"active"} |->
        IF k = "active" THEN "true" ELSE params[k]]

Pushes_get_url_params_first(startValue, bookmark, next_page_token) ==
    LET params == PushbulletStream_get_url_params(startValue, bookmark, next_page_token) IN
    IF next_page_token = None THEN WithActive(params) ELSE params

Pushes_get_url_params(startValue, bookmark, next_page_token) ==
    LET params == PushbulletStream_get_url_params(startValue, bookmark, next_page_token) IN
    WithActive(params)

\* Method resolution: only Pushes overrides get_url_params.
get_url_params(name, startValue, bookmark, next_page_token) ==
    IF name = "pushes"
    THEN Pushes_get_url_params(startValue, bookmark, next_page_token)
    ELSE PushbulletStream_get_url_params(startValue, bookmark, next_page_token)

(* ------------------ inherited from singer_sdk -------------------------- *)
\* BaseAPIPaginator.advance, with has_more and get_next as overridden /
\* inherited by PushbulletPaginator: the new paginator value, whether the
\* paginator is finished, and the exception raised (None: none).
advance_noloop(paginator, value, body) ==
    IF ~has_more(paginator, body)
    THEN [value |-> value, finished |-> TRUE, raised |-> None]
    ELSE LET new_value == get_next(paginator, body) IN
         IF ~Truthy(new_value)
         THEN [value |-> value, finished |-> TRUE, raised |-> None]
         ELSE [value |-> new_value, finished |-> FALSE, raised |-> None]

advance_silent(paginator, value, body) ==
    IF ~has_more(paginator, body)
    THEN [value |-> value, finished |-> TRUE, raised |-> None]
    ELSE LET new_value == get_next(paginator, body) IN
         IF Truthy(new_value) /\ new_value = value
         THEN [value |-> value, finished |-> TRUE, raised |-> None]
         ELSE IF ~Truthy(new_value)
              THEN [value |-> value, finished |-> TRUE, raised |-> None]
              ELSE [value |-> new_value, finished |-> FALSE, raised |-> None]

advance_loopfirst(paginator, value, body) ==
    LET new_value == get_next(paginator, body) IN
    IF Truthy(new_value) /\ new_value = value
    THEN [value |-> value, finished |-> FALSE, raised |-> "RuntimeError"]
    ELSE IF ~has_more(paginator, body) \/ ~Truthy(new_value)
         THEN [value |-> value, finished |-> TRUE, raised |-> None]
         ELSE [value |-> new_value, finished |-> FALSE, raised |-> None]

advance_nocursor(paginator, value, body) ==
    IF ~has_more(paginator, body)
    THEN [value |-> value, finished |-> TRUE, raised |-> None]
    ELSE LET new_value == get_next(paginator, body) IN
         IF Truthy(new_value) /\ new_value = value
         THEN [value |-> value, finished |-> FALSE, raised |-> "RuntimeError"]
         ELSE [value |-> new_value, finished |-> FALSE, raised |-> None]

advance(paginator, value, body) ==
    IF ~has_more(paginator, body)
    THEN [value |-> value, finished |-> TRUE, raised |-> None]
    ELSE LET new_value == get_next(paginator, body) IN
         IF Truthy(new_value) /\ new_value = value
         THEN [value |-> value, finished |-> FALSE, raised |-> "RuntimeError"]
         ELSE IF ~Truthy(new_value)
              THEN [value |-> value, finished |-> TRUE, raised |-> None]
              ELSE [value |-> new_value, finished |-> FALSE, raised |-> None]

\* The replication bookmark after the records of a page: the largest
\* `modified` seen so far.
RECURSIVE AdvanceBookmark(_, _)
AdvanceBookmark(bookmark, records) ==
    IF records = <<>> THEN bookmark
    ELSE AdvanceBookmark(
            IF bookmark = <<>> THEN <<Head(records)>>
            ELSE <<Max(bookmark[1], Head(records))>>,
            Tail(records))

(* ------------------------------ state ---------------------------------- *)
VARIABLES
    config,       \* the configuration of the tap
    streams,      \* the stream instances discover_streams returned
    stream,       \* name of the stream being extracted
    startValue,   \* starting replication-key value of the pass (optional)
    bookmark,     \* replication-key value reached so far (optional)
    paginator,    \* the paginator of the pass
    value,        \* paginator.current_value
    finished,     \* paginator.finished
    requests,     \* query parameters of every page request built so far
    derived,      \* cursor field of every page received so far
    resp,         \* body of the latest page received
    more,         \* what has_more returned on the latest page
    exc,          \* the latest failure signal
    clock,        \* the latest clock reading
    wait,         \* the wait computed for the latest failure (optional)
    pc,           \* position of the request loop
    error         \* exception that ended the pass (None: none)

vars == <<config, streams, stream, startValue, bookmark, paginator, value, finished, requests,
          derived, resp, more, exc, clock, wait, pc, error>>

NoPaginator == PushbulletPaginator(next_page_token_jsonpath, next_page_token_jsonpath)

Init ==
    /\ config \in Configs
    /\ streams = <<>>
    /\ stream = None
    /\ startValue \in OptNat(MaxModified)
    /\ bookmark = startValue
    /\ paginator = NoPaginator
    /\ value = None
    /\ finished = FALSE
    /\ requests = <<>>
    /\ derived = <<>>
    /\ resp = NoBody
    /\ more = FALSE
    /\ exc = NoException
    /\ clock = 0
    /\ wait = <<>>
    /\ pc = "new"
    /\ error = None

\* The tap discovers its streams.
run_discover_streams ==
    /\ pc = "new"
    /\ streams' = discover_streams(config)
    /\ pc' = "discovered"
    /\ UNCHANGED <<config, stream, startValue, bookmark, paginator, value,
                   finished, requests, derived, resp, more, exc, clock, wait,
                   error>>

\* One of the discovered streams starts its extraction pass.
sync_stream ==
    /\ pc = "discovered"
    /\ \E i \in 1..Len(streams) : stream' = streams[i].name
    /\ pc' = "start"
    /\ UNCHANGED <<config, streams, startValue, bookmark, paginator, value,
                   finished, requests, derived, resp, more, exc, clock, wait,
                   error>>

\* request_records: paginator = self.get_new_paginator()
request_records_begin ==
    /\ pc = "start"
    /\ paginator' = get_new_paginator(stream)
    /\ pc' = "ready"
    /\ UNCHANGED <<config, streams, stream, startValue, bookmark, value, finished, requests,
                   derived, resp, more, exc, clock, wait, error>>

\* while not paginator.finished: prepare_request(context, paginator.current_value)
prepare_request ==
    /\ pc = "ready"
    /\ ~finished
    /\ Len(requests) < MaxPages
    /\ requests' = Append(requests,
                          get_url_params(stream, startValue, bookmark, value))
    /\ pc' = "awaiting"
    /\ UNCHANGED <<config, streams, stream, startValue, bookmark, paginator, value, finished,
                   derived, resp, more, exc, clock, wait, error>>

\* The request fails with a retriable error: the retry decorator asks the
\* wait generator for the pause before the next attempt.
receive_failure ==
    /\ pc = "awaiting"
    /\ \E exception \in Exceptions, now \in 0..MaxNow :
        LET r == backoff_wait_generator(exception, now) IN
        /\ now >= clock
        /\ exc' = exception
        /\ clock' = now
        /\ IF r.raised = None
           THEN /\ wait' = <<r.value>>
                /\ pc' = "backoff"
                /\ error' = None
           ELSE /\ wait' = <<>>
                /\ pc' = "error"
                /\ error' = r.raised
    /\ UNCHANGED <<config, streams, stream, startValue, bookmark, paginator, value, finished,
                   requests, derived, resp, more>>

\* After the pause the same prepared request is sent again.
retry ==
    /\ pc = "backoff"
    /\ pc' = "awaiting"
    /\ wait' = <<>>
    /\ exc' = NoException
    /\ UNCHANGED <<config, streams, stream, startValue, bookmark, paginator, value, finished,
                   requests, derived, resp, more, clock, error>>

\* A page arrives: its records are emitted (the bookmark follows them) and
\* paginator.advance(resp) decides whether the loop goes on.
receive_page ==
    /\ pc = "awaiting"
    /\ \E body \in Bodies :
        LET a == advance(paginator, value, body) IN
        /\ resp' = body
        /\ derived' = Append(derived, body.cursor)
        /\ bookmark' = AdvanceBookmark(bookmark,
                          extract_jsonpath(records_jsonpath(stream), body))
        /\ more' = has_more(paginator, body)
        /\ value' = a.value
        /\ finished' = a.finished
        /\ error' = a.raised
        /\ pc' = IF a.raised # None THEN "error"
                 ELSE IF a.finished THEN "done" ELSE "ready"
    /\ UNCHANGED <<config, streams, stream, startValue, paginator, requests, exc, clock, wait>>

Next ==
    \/ run_discover_streams
    \/ sync_stream
    \/ request_records_begin
    \/ prepare_request
    \/ receive_failure
    \/ retry
    \/ receive_page

Spec == Init /\ [][Next]_vars

\* The request loop is a synchronous loop of one thread: while a step is
\* possible, one is taken.
LiveSpec == Init /\ [][Next]_vars /\ WF_vars(Next)

(* --------------------------- properties -------------------------------- *)
\* The latest page request has been answered by a page.
Answered == Len(requests) > 0 /\ Len(derived) = Len(requests)

LastToken == requests[Len(requests)].cursor

\* The latest page carries at least one record of the stream.
HasRecords == resp.key = stream /\ Len(resp.records) >= 1

\* C1: a page request whose response carries, as next-page token, the very
\* token the request was made with is the last request of the pass; in
\* particular after a second request that echoes its cursor no third
\* request is built, even when that page has records.
Thm_C1 ==
    \A i \in 1..Len(derived) :
        derived[i] = requests[i].cursor => Len(requests) = i

Witness_C1 ==
    /\ Len(requests) = 2
    /\ Len(derived) = 2
    /\ derived[2] = requests[2].cursor
    /\ derived[2] = "X"
    /\ HasRecords

Thm_C3 == Answered => (more <=> HasRecords)

Witness_C3 ==
    /\ Answered
    /\ resp.key = stream
    /\ resp.records = <<>>
    /\ resp.cursor = "X"
    /\ ~more

\* The reset header of the latest failure is a number.
ResetIsNumber ==
    exc.response /\ exc.reset # <<>> /\ float(exc.reset[1]).ok

\* C4: with a reset timestamp t and clock reading now the wait is t - now
\* when the reset lies in the future and 0 otherwise; never negative.
Thm_C4 ==
    (pc = "backoff" /\ ResetIsNumber) =>
        LET t == float(exc.reset[1]).val IN
        /\ wait # <<>>
        /\ wait[1] >= 0
        /\ IF t > clock THEN wait[1] = t - clock ELSE wait[1] = 0

Witness_C4 ==
    /\ pc = "backoff"
    /\ exc.response
    /\ exc.reset = << <<"0">> >>
    /\ clock = 1
    /\ wait = <<0>>

\* C5: a failure with no response at all always gets the fallback wait of
\* 60 seconds (and never ends the pass with an exception).
Thm_C5 ==
    /\ (pc = "backoff" /\ ~exc.response) => wait = <<60>>
    /\ (pc = "error" /\ error = "ValueError") => exc.response

Witness_C5 == pc = "backoff" /\ ~exc.response /\ wait = <<60>>

\* C6: a failure with a response that has no X-Ratelimit-Reset header
\* gets a wait of 0.
Thm_C6 ==
    (pc = "backoff" /\ exc.response /\ exc.reset = <<>>) => wait = <<0>>

Witness_C6 ==
    pc = "backoff" /\ exc.response /\ exc.reset = <<>> /\ wait = <<0>>

\* C7 as claimed: every failure signal gets a wait, and the wait is >= 0;
\* computing it never fails.
CE_C7 ==
    /\ error # "ValueError"
    /\ pc = "backoff" => (wait # <<>> /\ wait[1] >= 0)

\* C8: every request of the pushes stream carries active = "true", and no
\* request of another stream has an active parameter.
Thm_C8 ==
    \A i \in 1..Len(requests) :
        IF stream = "pushes"
        THEN "active" \in DOMAIN requests[i] /\ requests[i]["active"] = "true"
        ELSE "active" \notin DOMAIN requests[i]

Witness_C8 ==
    /\ stream = "pushes"
    /\ Len(requests) >= 2
    /\ requests[2].cursor = "X"
    /\ startValue # <<>>
    /\ bookmark # startValue

\* C9: every request has limit = 100, modified_after = the starting
\* replication-key value of the pass, and cursor = the token supplied for
\* it: none on the first request, afterwards the cursor of the page before.
Thm_C9 ==
    \A i \in 1..Len(requests) :
        /\ requests[i].limit = 100
        /\ requests[i].modified_after = startValue
        /\ requests[i].cursor = IF i = 1 THEN None ELSE derived[i - 1]

Witness_C9 ==
    /\ Len(requests) = 3
    /\ requests[2].cursor # requests[3].cursor
    /\ bookmark # startValue
    /\ stream = "chats"

\* C10: a page in which the records path matches nothing because the
\* stream's array is missing ends the pass exactly as an empty page does:
\* has_more is false, the paginator is finished with its value untouched,
\* and no error is raised.
Thm_C10 ==
    (Answered /\ (resp.key # stream \/ resp.records = <<>>)) =>
        /\ ~more
        /\ pc = "done"
        /\ finished
        /\ error = None
        /\ value = LastToken

Witness_C10 ==
    /\ Answered
    /\ resp.key = None
    /\ resp.cursor = "Y"
    /\ LastToken = "X"
    /\ pc = "done"

\* C11: discover_streams returns exactly one instance per registered
\* class, in the order chats, devices, pushes, subscriptions, every
\* instance bound to the configuration of the tap, and no two instances
\* have the same name.
Thm_C11 ==
    pc # "new" =>
        /\ Len(streams) = 4
        /\ [i \in 1..Len(streams) |-> streams[i].name]
               = <<"chats", "devices", "pushes", "subscriptions">>
        /\ \A i \in 1..Len(streams) : streams[i].config = config
        /\ \A i, j \in 1..Len(streams) :
               i # j => streams[i].name # streams[j].name

Witness_C11 ==
    /\ pc = "discovered"
    /\ Len(streams) = 4
    /\ config.api_key = "key2"
    /\ streams[3].config.api_key = "key2"

\* C12: when the request made with a non-empty cursor returns an empty
\* record array that carries the same cursor again, has_more decides: the
\* pass is finished without an error after that request, the repeated
\* cursor is not reported as a loop, and no further request can be built.
Thm_C12 ==
    (/\ Answered
     /\ resp.key = stream
     /\ resp.records = <<>>
     /\ Truthy(resp.cursor)
     /\ resp.cursor = LastToken) =>
        /\ ~more
        /\ pc = "done"
        /\ finished
        /\ error = None
        /\ ~ENABLED prepare_request

Witness_C12 ==
    /\ Len(requests) = 2
    /\ derived = <<"X", "X">>
    /\ resp.key = stream
    /\ resp.records = <<>>
    /\ pc = "done"

\* The latest page has records but no cursor field.
NoCursorPage == Answered /\ HasRecords /\ resp.cursor = None

\* The latest page is empty or has no cursor field.
TerminalPage == Answered /\ (~HasRecords \/ resp.cursor = None)

\* C13: a page that has records but no cursor finishes the pass although
\* has_more returned true; and once the server has returned an empty page
\* or a page without a cursor, the pass is finished.
Thm_C13 ==
    /\ [](NoCursorPage => (more /\ pc = "done" /\ finished /\ error = None))
    /\ (TerminalPage ~> (pc = "done" /\ finished))

Witness_C13 ==
    /\ NoCursorPage
    /\ Len(requests) = 2
    /\ more
    /\ pc = "done"

====
